---- MODULE Spec2Model ----
(***************************************************************************)
(* JEP Analytics Dashboard, src/app.py.                                    *)
(*                                                                         *)
(* The dashboard script is re-run from top to bottom on every user         *)
(* interaction: load_data (memoized), the three sidebar selectors, the     *)
(* filter step, the metrics, the chart builders, the table and the export. *)
(* The state is the input file, the memo of load_data, the widget state    *)
(* and what the last run of main computed and rendered.                    *)
(*                                                                         *)
(* Values.  A str is a sequence of one-character strings, so that the      *)
(* text operations of the code (regular-expression match, date parsing,    *)
(* integer formatting) are computed and not assumed.  A missing value      *)
(* (NaN, NaT, the empty cell) is the empty sequence; a number or a         *)
(* timestamp held in a column is a non-empty sequence of integers.         *)
(***************************************************************************)
EXTENDS Integers, Sequences, FiniteSets, TLC

VARIABLES
  file,         \* datos_jeps.csv as it is on disk
  cache,        \* the memo kept by @st.cache_data for load_data
  widgets,      \* the session's widget state: the three selectbox values
  df,           \* what load_data returned to the last run of main
  df_filtrado,  \* the filtered view of the last run
  page,         \* what the last run rendered
  loaded_from   \* history: the content of the file when load_data last read it

vars == <<file, cache, widgets, df, df_filtrado, page, loaded_from>>

(***************************************************************************)
(* Bounds of the model.                                                    *)
(***************************************************************************)
MaxRows == 2

(***************************************************************************)
(* Text.                                                                   *)
(***************************************************************************)
NaN == <<>>

S_REVISAR == <<"R", "E", "V", "I", "S", "A", "R">>
S_Unknown == <<"U", "n", "k", "n", "o", "w", "n">>
S_TBD     == <<"T", "B", "D">>
S_Todos   == <<"T", "o", "d", "o", "s">>
S_nan     == <<"n", "a", "n">>

DigitChars == <<"0", "1", "2", "3", "4", "5", "6", "7", "8", "9">>

Digits == {DigitChars[i] : i \in 1..Len(DigitChars)}

DigitVal(c) == (CHOOSE i \in 1..Len(DigitChars) : DigitChars[i] = c) - 1

\* A text the parsers read as a whole number.
IsDigitText(s) == Len(s) >= 1 /\ \A i \in 1..Len(s) : s[i] \in Digits

RECURSIVE ParseInt(_)
ParseInt(s) ==
  IF s = <<>> THEN 0
  ELSE 10 * ParseInt(SubSeq(s, 1, Len(s) - 1)) + DigitVal(s[Len(s)])

RECURSIVE FormatInt(_)
FormatInt(n) ==
  IF n < Len(DigitChars) THEN <<DigitChars[n + 1]>>
  ELSE FormatInt(n \div Len(DigitChars)) \o <<DigitChars[(n % Len(DigitChars)) + 1]>>

\* The fields of s between the separator characters seps.
RECURSIVE Split(_, _)
Split(s, seps) ==
  IF \A i \in 1..Len(s) : s[i] \notin seps THEN <<s>>
  ELSE LET k == CHOOSE i \in 1..Len(s) :
                   s[i] \in seps /\ \A j \in 1..(i - 1) : s[j] \notin seps
       IN  <<SubSeq(s, 1, k - 1)>> \o Split(SubSeq(s, k + 1, Len(s)), seps)

(***************************************************************************)
(* Timestamps.  A Timestamp is <<year, month, day>>; NaT is <<>>.  The     *)
(* file holds dates only (2025/3/31, 2025/03/31), so a Timedelta is a      *)
(* whole number of days.                                                   *)
(***************************************************************************)
NaT == <<>>

IsLeap(y) == (y % 4 = 0 /\ y % 100 # 0) \/ y % 400 = 0

DaysInMonth(y, m) ==
  IF m = 2 THEN (IF IsLeap(y) THEN 29 ELSE 28)
  ELSE IF m \in {4, 6, 9, 11} THEN 30 ELSE 31

RECURSIVE DaysBeforeMonth(_, _)
DaysBeforeMonth(y, m) ==
  IF m <= 1 THEN 0 ELSE DaysBeforeMonth(y, m - 1) + DaysInMonth(y, m - 1)

DaysBeforeYear(y) ==
  (y - 1) * 365 + ((y - 1) \div 4) - ((y - 1) \div 100) + ((y - 1) \div 400)

\* The proleptic Gregorian ordinal of a Timestamp.
ToOrdinal(ts) == DaysBeforeYear(ts[1]) + DaysBeforeMonth(ts[1], ts[2]) + ts[3]

\* pd.to_datetime(text, errors='coerce') of one cell of an object column:
\* year, month and day separated by / (or by -, one separator per column),
\* NaT for anything else.
ParseTimestamp(s) ==
  LET f == Split(s, {"/", "-"})
  IN  IF Len(f) = 3 /\ \A i \in 1..3 : IsDigitText(f[i])
      THEN LET y == ParseInt(f[1])
               m == ParseInt(f[2])
               d == ParseInt(f[3])
           IN  IF y >= 1 /\ m \in 1..12 /\ d \in 1..DaysInMonth(y, m)
               THEN <<y, m, d>>
               ELSE NaT
      ELSE NaT

\* pd.to_datetime(column, errors='coerce'): text is parsed, NaN becomes NaT,
\* and a number is taken as nanoseconds since the epoch (a moment of
\* 1970-01-01 for every number a year or a JEP number can be).
ToDatetime(dtype, v) ==
  IF v = NaN THEN NaT
  ELSE IF dtype = "object" THEN ParseTimestamp(v)
  ELSE <<1970, 1, 1>>

\* Series.dt.year
DtYear(ts) == IF ts = NaT THEN NaN ELSE <<ts[1]>>

\* Variant of SubtractDays: the length of the interval, whatever its direction.
SubtractDays_Unsigned(updated, created) ==
  IF updated = NaT \/ created = NaT THEN NaN
  ELSE IF ToOrdinal(updated) >= ToOrdinal(created)
       THEN <<ToOrdinal(updated) - ToOrdinal(created)>>
       ELSE <<ToOrdinal(created) - ToOrdinal(updated)>>

\* (Updated - Created).dt.days
SubtractDays(updated, created) ==
  IF updated = NaT \/ created = NaT THEN NaN
  ELSE <<ToOrdinal(updated) - ToOrdinal(created)>>

(***************************************************************************)
(* The input file.  A file is missing, unreadable as a delimited table     *)
(* (ragged lines, undecodable bytes, no header), or a header and rows of   *)
(* text cells.  The model draws the rows from a catalogue that holds every *)
(* kind of cell the loader distinguishes.                                  *)
(***************************************************************************)
T(a) == <<a>>

\* The header spellings the model draws, in the order of the file's columns.
HeaderSpellings ==
  <<"Number", "Title", "Owner", "Status", " Status ", "Release", "Created", "Updated">>

\* columns.str.strip().str.replace('\s+', '_'), tabulated on HeaderSpellings
\* (a column name is an atomic string of the model).
NormalizeName(c) == IF c = " Status " THEN "Status" ELSE c

Cell(number, title, owner, status, release, created, updated) ==
  [c \in {HeaderSpellings[i] : i \in 1..Len(HeaderSpellings)} |->
     CASE c = "Number" -> number
       [] c = "Title" -> title
       [] c = "Owner" -> owner
       [] c \in {"Status", " Status "} -> status
       [] c = "Release" -> release
       [] c = "Created" -> created
       [] OTHER -> updated]

S_Ana    == <<"A", "n", "a">>
S_Lu     == <<"L", "u">>
S_NA     == <<"N", "A">>
S_Closed == <<"C", "l", "o", "s", "e", "d">>
S_Draft  == <<"D", "r", "a", "f", "t">>
S_17     == <<"1", "7">>
S_21     == <<"2", "1">>
S_8u40   == <<"8", "u", "4", "0">>

D_2023_01_01 == <<"2", "0", "2", "3", "/", "1", "/", "1">>
D_2023_01_11 == <<"2", "0", "2", "3", "/", "0", "1", "/", "1", "1">>
D_2023_02_01 == <<"2", "0", "2", "3", "/", "0", "2", "/", "0", "1">>
D_2022_12_31 == <<"2", "0", "2", "2", "/", "1", "2", "/", "3", "1">>
D_2023_02_31 == <<"2", "0", "2", "3", "/", "2", "/", "3", "1">>
D_2023_03_01 == <<"2", "0", "2", "3", "/", "3", "/", "1">>

Catalogue ==
  { Cell(T("1"), T("a"), S_Ana, S_Closed, S_17, D_2023_01_01, D_2023_01_11),
    Cell(T("2"), T("b"), S_Lu, S_Draft, S_TBD, D_2023_02_01, <<>>),
    Cell(T("3"), T("c"), S_REVISAR, S_REVISAR, S_REVISAR, D_2022_12_31, D_2022_12_31),
    Cell(T("4"), <<>>, S_NA, <<>>, <<>>, <<>>, D_2023_01_11),
    Cell(T("5"), T("e"), S_Ana, S_Draft, S_8u40, D_2023_01_11, D_2023_01_01),
    Cell(T("6"), T("f"), S_Lu, S_Closed, S_21, D_2023_02_31, D_2023_03_01) }

\* The headers: Number and Title are there, each other column may be absent,
\* and Status may be written with blanks around it.
Headers ==
  { SelectSeq(HeaderSpellings, LAMBDA c : c \notin absent) :
      absent \in { a \in SUBSET {"Owner", "Status", " Status ", "Release", "Created", "Updated"} :
                     {"Status", " Status "} \cap a # {} } }

Restrict(row, header) == [c \in {header[i] : i \in 1..Len(header)} |-> row[c]]

MissingFile == [kind |-> "missing", header |-> <<>>, rows |-> <<>>]
CorruptFile == [kind |-> "corrupt", header |-> <<>>, rows |-> <<>>]

CsvFile(header, rows) ==
  [kind |-> "csv", header |-> header,
   rows |-> [i \in 1..Len(rows) |-> Restrict(rows[i], header)]]

Files ==
  {MissingFile, CorruptFile} \cup
  { CsvFile(h, r) : h \in Headers,
                    r \in UNION { [1..n -> Catalogue] : n \in 0..MaxRows } }

(***************************************************************************)
(* DataFrames.  columns is the column order, dtypes the type of each       *)
(* column, index the row labels and rows the records.  None is the value   *)
(* load_data returns on failure.                                           *)
(***************************************************************************)
None == [isNone |-> TRUE, columns |-> <<>>, dtypes |-> <<>>, index |-> <<>>, rows |-> <<>>]

DataFrame(columns, dtypes, index, rows) ==
  [isNone |-> FALSE, columns |-> columns, dtypes |-> dtypes, index |-> index, rows |-> rows]

Range(s) == {s[i] : i \in 1..Len(s)}

\* The texts read_csv reads as missing (keep_default_na).
NaValues == {<<>>, S_NA, S_nan, <<"N", "/", "A">>, <<"n", "u", "l", "l">>, <<"N", "a", "N">>}

ReadCell(text) == IF text \in NaValues THEN NaN ELSE text

\* read_csv's type of a column: whole numbers are parsed as int64, as
\* float64 when a cell is missing, and anything else is left as text.
InferDtype(cells) ==
  LET present == {i \in 1..Len(cells) : ReadCell(cells[i]) # NaN}
  IN  IF Len(cells) = 0 THEN "object"
      ELSE IF \A i \in present : IsDigitText(cells[i])
           THEN (IF present = 1..Len(cells) THEN "int64" ELSE "float64")
           ELSE "object"

ConvertCell(dtype, text) ==
  IF ReadCell(text) = NaN THEN NaN
  ELSE IF dtype = "object" THEN text
  ELSE <<ParseInt(text)>>

\* pd.read_csv('datos_jeps.csv', sep='\t', encoding='utf-8') of a readable file.
ReadCsv(f) ==
  LET dtypes == [c \in Range(f.header) |->
                   InferDtype([i \in 1..Len(f.rows) |-> f.rows[i][c]])]
  IN  DataFrame(f.header, dtypes,
                [i \in 1..Len(f.rows) |-> i - 1],
                [i \in 1..Len(f.rows) |->
                   [c \in Range(f.header) |-> ConvertCell(dtypes[c], f.rows[i][c])]])

\* df.columns = df.columns.str.strip().str.replace('\s+', '_', regex=True)
RenameColumns(d) ==
  LET old(c) == CHOOSE o \in Range(d.columns) : NormalizeName(o) = c
      new == {NormalizeName(o) : o \in Range(d.columns)}
  IN  DataFrame([i \in 1..Len(d.columns) |-> NormalizeName(d.columns[i])],
                [c \in new |-> d.dtypes[old(c)]],
                d.index,
                [i \in 1..Len(d.rows) |-> [c \in new |-> d.rows[i][old(c)]]])

(***************************************************************************)
(* load_data.                                                              *)
(***************************************************************************)
\* Variant of Replace: the replaced series is not assigned back.
Replace_Unassigned(dtype, v, old, new) == v

\* Series.replace(old, new): the cells equal to old become new; a numeric
\* column holds no text and is left as it is.
Replace(dtype, v, old, new) == IF dtype = "object" /\ v = old THEN new ELSE v

Append2(s, a, b) ==
  (IF a \in Range(s) THEN s ELSE Append(s, a)) \o (IF b \in Range(s) \cup {a} THEN <<>> ELSE <<b>>)

\* Lines 54-64 of load_data on the frame read from the file, which has the
\* five columns the lines subscript.
Process(d) ==
  LET created(r) == ToDatetime(d.dtypes["Created"], r["Created"])
      updated(r) == ToDatetime(d.dtypes["Updated"], r["Updated"])
      columns == Append2(d.columns, "Year_Created", "Duration_Days")
      whole(col(_)) == \A i \in 1..Len(d.rows) : col(d.rows[i]) # NaT
      year(r) == DtYear(created(r))
      days(r) == SubtractDays(updated(r), created(r))
      dtypes == [c \in Range(columns) |->
                   CASE c \in {"Created", "Updated"} -> "datetime64"
                     [] c = "Year_Created" -> IF whole(created) THEN "int32" ELSE "float64"
                     [] c = "Duration_Days" ->
                          IF whole(created) /\ whole(updated) THEN "int64" ELSE "float64"
                     [] OTHER -> d.dtypes[c]]
      row(r) == [c \in Range(columns) |->
                   CASE c = "Created" -> created(r)
                     [] c = "Updated" -> updated(r)
                     [] c = "Year_Created" -> year(r)
                     [] c = "Duration_Days" -> days(r)
                     [] c = "Status" -> Replace(d.dtypes[c], r[c], S_REVISAR, S_Unknown)
                     [] c = "Owner" -> Replace(d.dtypes[c], r[c], S_REVISAR, S_Unknown)
                     [] c = "Release" -> Replace(d.dtypes[c], r[c], S_REVISAR, S_TBD)
                     [] OTHER -> r[c]]
  IN  DataFrame(columns, dtypes, d.index, [i \in 1..Len(d.rows) |-> row(d.rows[i])])

Raise(exc, detail) == [exc |-> exc, detail |-> detail, df |-> None]

Return(d) == [exc |-> "none", detail |-> "", df |-> d]

\* The columns load_data subscripts, in the order of lines 54, 55, 62, 63, 64.
Subscripted == <<"Created", "Updated", "Status", "Owner", "Release">>

\* Lines 54-66 on the frame d: a subscript of an absent column raises.
ProcessOrRaise(d) ==
  IF \E i \in 1..Len(Subscripted) : Subscripted[i] \notin Range(d.columns)
  THEN Raise("KeyError",
             Head(SelectSeq(Subscripted, LAMBDA c : c \notin Range(d.columns))))
  ELSE Return(Process(d))

\* The try block of load_data: the frame it returns or the exception it raises.
LoadBody(f) ==
  IF f.kind = "missing" THEN Raise("FileNotFoundError", "datos_jeps.csv")
  ELSE IF f.kind = "corrupt" THEN Raise("ParserError", "Error tokenizing data")
  ELSE ProcessOrRaise(RenameColumns(ReadCsv(f)))

StError(text, detail) == [level |-> "error", text |-> text, detail |-> detail]

StInfo(text) == [level |-> "info", text |-> text, detail |-> ""]

\* load_data without its memo: the try block and the two except clauses.
\* Variant of Handle: only except FileNotFoundError, any other exception
\* leaves load_data.
Handle_OnlyFileNotFound(b) ==
  IF b.exc = "none"
  THEN [value |-> b.df, messages |-> <<>>, escaped |-> "none"]
  ELSE IF b.exc = "FileNotFoundError"
  THEN [value |-> None, escaped |-> "none",
        messages |-> <<StError("No se encontro el archivo 'datos_jeps.csv'", "")>>]
  ELSE [value |-> None, escaped |-> b.exc, messages |-> <<>>]

\* The except clauses of load_data (lines 67-72) on the outcome b of the try
\* block.  escaped is the exception that leaves the function ("none": every
\* Exception is caught).
Handle(b) ==
  IF b.exc = "none"
  THEN [value |-> b.df, messages |-> <<>>, escaped |-> "none"]
  ELSE IF b.exc = "FileNotFoundError"
  THEN [value |-> None, escaped |-> "none",
        messages |-> <<StError("No se encontro el archivo 'datos_jeps.csv'", "")>>]
  ELSE [value |-> None, escaped |-> "none",
        messages |-> <<StError("Error al cargar los datos", b.detail)>>]

load_data_uncached(f) == Handle(LoadBody(f))

NoCache == [valid |-> FALSE, value |-> None, messages |-> <<>>]

\* @st.cache_data: load_data takes no argument, so the memo has one entry; a
\* hit returns the stored value and replays the stored messages without
\* running the body, and a call that raises stores nothing.
Memoize(c, r) ==
  [value |-> r.value, messages |-> r.messages, escaped |-> r.escaped,
   cache |-> IF r.escaped = "none"
             THEN [valid |-> TRUE, value |-> r.value, messages |-> r.messages]
             ELSE c,
   read |-> TRUE]

load_data(c, f) ==
  IF c.valid
  THEN [value |-> c.value, messages |-> c.messages, escaped |-> "none",
        cache |-> c, read |-> FALSE]
  ELSE Memoize(c, load_data_uncached(f))

(***************************************************************************)
(* Series and DataFrame operations used by main and the chart builders.    *)
(***************************************************************************)
Min(a, b) == IF a <= b THEN a ELSE b

Column(d, c) == [i \in 1..Len(d.rows) |-> d.rows[i][c]]

\* Series.unique(): the distinct values in order of first appearance, NaN
\* among them when a cell is missing.
RECURSIVE Unique(_)
Unique(s) ==
  IF s = <<>> THEN <<>>
  ELSE LET u == Unique(SubSeq(s, 1, Len(s) - 1))
       IN  IF s[Len(s)] \in Range(u) THEN u ELSE Append(u, s[Len(s)])

\* sorted(...) of a set of numbers.
RECURSIVE Sorted(_)
Sorted(S) ==
  IF S = {} THEN <<>>
  ELSE LET m == CHOOSE x \in S : \A y \in S : x[1] <= y[1]
       IN  <<m>> \o Sorted(S \ {m})

\* a == b of two cells: NaN equals nothing, not even NaN.
PdEq(a, b) == a # NaN /\ b # NaN /\ a = b

\* d[mask]: the rows of d at which the boolean series mask holds, with their
\* labels, in order.
Keep(d, mask) ==
  LET pos == SelectSeq([i \in 1..Len(d.rows) |-> i], LAMBDA i : mask[i])
  IN  DataFrame(d.columns, d.dtypes,
                [k \in 1..Len(pos) |-> d.index[pos[k]]],
                [k \in 1..Len(pos) |-> d.rows[pos[k]]])

\* Series.value_counts() and groupby(...).size(): the count of each value
\* that is not missing.
ValueCounts(s) ==
  [v \in Range(s) \ {NaN} |-> Cardinality({i \in 1..Len(s) : s[i] = v})]

\* .head(n) of value counts: the n largest counts.
HeadCounts(counts, n) ==
  LET D == DOMAIN counts
      S == CHOOSE X \in SUBSET D :
             /\ Cardinality(X) = Min(n, Cardinality(D))
             /\ \A a \in X, b \in D \ X : counts[a] >= counts[b]
  IN  [v \in S |-> counts[v]]

FormatSigned(n) == IF n < 0 THEN <<"-">> \o FormatInt(0 - n) ELSE FormatInt(n)

\* astype(str) of one cell of a column of the given type.
AsTypeStr(dtype, v) ==
  IF v = NaN THEN S_nan
  ELSE IF dtype = "object" THEN v
  ELSE IF dtype = "float64" THEN FormatSigned(v[1]) \o <<".", "0">>
  ELSE FormatSigned(v[1])

\* Variant of MatchDigits: the pattern without its end anchor, ^\d+.
MatchDigits_NoEnd(s) == Len(s) >= 1 /\ s[1] \in Digits

\* Series.str.match(r'^\d+$', na=False) of one text: one or more decimal
\* digits and nothing else.
MatchDigits(s) == Len(s) >= 1 /\ \A i \in 1..Len(s) : s[i] \in Digits

\* d['Release'] = d['Release'].astype(str): the frame d is after the
\* assignment of lines 127 and 218.
ReleaseAsText(d) ==
  DataFrame(d.columns, [d.dtypes EXCEPT !["Release"] = "object"], d.index,
            [i \in 1..Len(d.rows) |->
               [d.rows[i] EXCEPT !["Release"] = AsTypeStr(d.dtypes["Release"], d.rows[i]["Release"])]])

\* df.copy() with Release = Release.astype(str), then the rows whose
\* Release matches ^\d+$ (lines 126-128 and 217-219).
ValidReleases(d) ==
  LET copy == ReleaseAsText(d)
  IN  Keep(copy, [i \in 1..Len(copy.rows) |-> MatchDigits(copy.rows[i]["Release"])])

(***************************************************************************)
(* The chart builders.  A figure is its kind and the data it plots; NoFig  *)
(* is the None a builder returns.                                          *)
(***************************************************************************)
Bins == 30
TopAuthorsChart == 10
TopAuthors == 5
TopStatus == 3

Fig(kind, data) == [kind |-> kind, data |-> data]

NoFig == [kind |-> "None", data |-> <<>>]

create_status_chart(d) == Fig("pie", ValueCounts(Column(d, "Status")))

create_authors_chart(d) ==
  Fig("bar", HeadCounts(ValueCounts(Column(d, "Owner")), TopAuthorsChart))

create_timeline_chart(d) == Fig("line", ValueCounts(Column(d, "Year_Created")))

create_release_chart(d) ==
  LET valid_releases == ValidReleases(d)
  IN  IF valid_releases.rows # <<>>
      THEN Fig("bar", ValueCounts(Column(valid_releases, "Release")))
      ELSE NoFig

\* Variant of PositiveDuration: >= 0 in place of > 0.
PositiveDuration_OrZero(v) == v # NaN /\ v[1] >= 0

\* df['Duration_Days'] > 0 of one cell: false for NaN.
PositiveDuration(v) == v # NaN /\ v[1] > 0

create_duration_analysis(d) ==
  LET valid_durations == SelectSeq(Column(d, "Duration_Days"), PositiveDuration)
  IN  IF valid_durations # <<>>
      THEN Fig("histogram", [values |-> valid_durations, bins |-> Bins])
      ELSE NoFig

(***************************************************************************)
(* The export: df_filtrado.to_csv(index=False), a sequence of lines whose  *)
(* fields are joined by commas.                                            *)
(***************************************************************************)
Pad2(n) == IF n < Len(DigitChars) THEN <<"0">> \o FormatInt(n) ELSE FormatInt(n)

FormatDate(ts) == FormatInt(ts[1]) \o <<"-">> \o Pad2(ts[2]) \o <<"-">> \o Pad2(ts[3])

RECURSIVE DoubleQuotes(_)
DoubleQuotes(s) ==
  IF s = <<>> THEN <<>>
  ELSE (IF Head(s) = "\"" THEN <<"\"", "\"">> ELSE <<Head(s)>>) \o DoubleQuotes(Tail(s))

\* csv.QUOTE_MINIMAL
Quote(s) ==
  IF \E i \in 1..Len(s) : s[i] \in {",", "\"", "\n", "\r"}
  THEN <<"\"">> \o DoubleQuotes(s) \o <<"\"">>
  ELSE s

CsvCell(dtype, v) ==
  IF v = NaN THEN <<>>
  ELSE IF dtype = "object" THEN Quote(v)
  ELSE IF dtype = "datetime64" THEN FormatDate(v)
  ELSE IF dtype = "float64" THEN FormatSigned(v[1]) \o <<".", "0">>
  ELSE FormatSigned(v[1])

RECURSIVE Join(_, _)
Join(fields, sep) ==
  IF fields = <<>> THEN <<>>
  ELSE IF Len(fields) = 1 THEN fields[1]
  ELSE fields[1] \o <<sep>> \o Join(Tail(fields), sep)

ToCsv(d) ==
  <<Join([i \in 1..Len(d.columns) |-> <<d.columns[i]>>], ",")>> \o
  [i \in 1..Len(d.rows) |->
     Join([k \in 1..Len(d.columns) |->
             CsvCell(d.dtypes[d.columns[k]], d.rows[i][d.columns[k]])], ",")]

(***************************************************************************)
(* main: one run of the script.                                            *)
(***************************************************************************)
\* st.selectbox: the session's value when the options still hold it, else
\* the first option.
selectbox(options, value) == IF value \in Range(options) THEN value ELSE options[1]

Estados(d) == <<S_Todos>> \o Unique(Column(d, "Status"))

Anos(d) == <<S_Todos>> \o Sorted(Range(Column(d, "Year_Created")) \ {NaN})

Autores(d) == <<S_Todos>> \o Unique(Column(d, "Owner"))

\* Lines 186-196: the three filters, one after the other, on a copy.
FilterBy(d, column, seleccionado) ==
  IF seleccionado # S_Todos
  THEN Keep(d, [i \in 1..Len(d.rows) |-> PdEq(d.rows[i][column], seleccionado)])
  ELSE d

ApplyFilters(d, estado, ano, autor) ==
  FilterBy(FilterBy(FilterBy(d, "Status", estado), "Year_Created", ano), "Owner", autor)

RECURSIVE Sum(_)
Sum(s) == IF s = <<>> THEN 0 ELSE Head(s)[1] + Sum(Tail(s))

\* f"{x:.0f}" of the mean total / n: the nearest whole number, the even
\* one when two are as near.
RoundMean(total, n) ==
  LET q == total \div n
      r == total % n
  IN  IF 2 * r < n THEN q
      ELSE IF 2 * r > n THEN q + 1
      ELSE IF q % 2 = 0 THEN q ELSE q + 1

\* Lines 199-229: the four metrics.
Metrics(d, f) ==
  LET durations == SelectSeq(Column(f, "Duration_Days"), LAMBDA v : v # NaN)
  IN  [total |-> Len(f.rows),
       delta |-> IF Len(f.rows) # Len(d.rows) THEN <<Len(f.rows) - Len(d.rows)>> ELSE NaN,
       autores_unicos |-> Cardinality(Range(Column(f, "Owner")) \ {NaN}),
       releases_unicos |-> Cardinality(Range(Column(ValidReleases(f), "Release"))),
       duracion_promedio |-> IF durations = <<>> THEN NaN
                             ELSE <<RoundMean(Sum(durations), Len(durations))>>]

NoMetrics ==
  [total |-> 0, delta |-> NaN, autores_unicos |-> 0, releases_unicos |-> 0,
   duracion_promedio |-> NaN]

Chart(fig) == [chart |-> fig, info |-> ""]

Info(text) == [chart |-> NoFig, info |-> text]

NoPanel == Info("")

\* if fig: st.plotly_chart(fig) else: st.info(text)
ChartOr(fig, text) == IF fig.kind # "None" THEN Chart(fig) ELSE Info(text)

\* Lines 300-321: the default of the column multiselect.
ColumnsToShow(f) ==
  LET suggested_defaults == <<"Number", "Title", "Owner", "Status", "Release", "Created">>
      actual_defaults == SelectSeq(suggested_defaults, LAMBDA c : c \in Range(f.columns))
  IN  IF actual_defaults # <<>> THEN actual_defaults
      ELSE SubSeq(f.columns, 1, Min(6, Len(f.columns)))

BlankPage ==
  [messages |-> <<>>, exception |-> "none", guidance |-> FALSE, steps |-> {},
   read |-> FALSE, estados |-> <<>>, anos |-> <<>>, autores |-> <<>>,
   metrics |-> NoMetrics, tab1 |-> NoPanel, tab2 |-> NoPanel, tab3 |-> NoPanel,
   tab4 |-> NoPanel, duration |-> NoPanel, top_authors |-> <<>>, top_status |-> <<>>,
   columns_to_show |-> <<>>, csv |-> <<>>]

\* Lines 157-165: load_data returned None.
GuidancePage(ld) ==
  [BlankPage EXCEPT
     !.messages = ld.messages \o <<StInfo("Instrucciones: Coloca el archivo 'datos_jeps.csv'")>>,
     !.guidance = TRUE,
     !.steps = {"load"},
     !.read = ld.read]

\* Lines 167-337: the dashboard of a loaded table d viewed through f.
Dashboard(ld, d, f) ==
  [messages |-> ld.messages,
   exception |-> "none",
   guidance |-> FALSE,
   steps |-> {"load", "selectors", "filter", "metrics", "charts", "stats", "table", "export"},
   read |-> ld.read,
   estados |-> Estados(d),
   anos |-> Anos(d),
   autores |-> Autores(d),
   metrics |-> Metrics(d, f),
   tab1 |-> IF Len(f.rows) > 0 THEN Chart(create_status_chart(f))
            ELSE Info("No hay datos para mostrar con los filtros seleccionados."),
   tab2 |-> IF Len(f.rows) > 0 THEN Chart(create_authors_chart(f))
            ELSE Info("No hay datos para mostrar con los filtros seleccionados."),
   tab3 |-> IF Len(f.rows) > 0 /\ "Year_Created" \in Range(f.columns)
            THEN Chart(create_timeline_chart(f))
            ELSE Info("No hay datos de fechas validas para mostrar."),
   tab4 |-> ChartOr(create_release_chart(f), "No hay datos de releases validos para mostrar."),
   duration |-> ChartOr(create_duration_analysis(f), "No hay datos de duracion validos."),
   top_authors |-> HeadCounts(ValueCounts(Column(f, "Owner")), TopAuthors),
   top_status |-> HeadCounts(ValueCounts(Column(f, "Status")), TopStatus),
   columns_to_show |-> ColumnsToShow(f),
   csv |-> ToCsv(f)]

\* The frames of a run as objects.  obj is the object each name is bound to
\* (0: unbound), val the frame seen through the name, fresh the next object.
\* Two names bound to one object see each other's item assignments.
Names == {"df", "df_filtrado", "df_filtrado_copy", "df_copy"}

\* Line 155: df = load_data().
Bound(d) ==
  [obj |-> [n \in Names |-> IF n = "df" THEN 1 ELSE 0],
   val |-> [n \in Names |-> IF n = "df" THEN d ELSE None],
   fresh |-> 2]

\* Variant of Copying: target = src, the same object under another name.
Copying_Alias(m, target, src) ==
  [obj |-> [m.obj EXCEPT ![target] = m.obj[src]],
   val |-> [m.val EXCEPT ![target] = m.val[src]],
   fresh |-> m.fresh]

\* target = src.copy() (lines 126, 187, 217): a new object with src's content.
Copying(m, target, src) ==
  [obj |-> [m.obj EXCEPT ![target] = m.fresh],
   val |-> [m.val EXCEPT ![target] = m.val[src]],
   fresh |-> m.fresh + 1]

\* target = target[mask] (lines 190, 193, 196): boolean indexing makes a new
\* frame v and binds the name to it.
Indexing(m, target, v) ==
  [obj |-> [m.obj EXCEPT ![target] = m.fresh],
   val |-> [m.val EXCEPT ![target] = v],
   fresh |-> m.fresh + 1]

\* target[column] = ...: the object changes, under every name bound to it.
SetItem(m, target, v) ==
  [m EXCEPT !.val = [n \in Names |-> IF m.obj[n] = m.obj[target] THEN v ELSE m.val[n]]]

FilterStep(m, column, seleccionado) ==
  IF seleccionado # S_Todos
  THEN Indexing(m, "df_filtrado", FilterBy(m.val["df_filtrado"], column, seleccionado))
  ELSE m

\* Lines 187-196.
FilterMemory(m, s) ==
  FilterStep(FilterStep(FilterStep(Copying(m, "df_filtrado", "df"),
                                   "Status", s.estado),
                        "Year_Created", s.ano),
             "Owner", s.autor)

\* Lines 127 and 218 on the object of target.
CoerceRelease(m, target) == SetItem(m, target, ReleaseAsText(m.val[target]))

\* The objects at the end of a run on the table d with the selections s:
\* the filter step, the release metric (lines 217-218) and
\* create_release_chart(df_filtrado) (lines 126-127).
MainMemory(d, s) ==
  CoerceRelease(
    Copying(CoerceRelease(Copying(FilterMemory(Bound(d), s),
                                  "df_filtrado_copy", "df_filtrado"),
                          "df_filtrado_copy"),
            "df_copy", "df_filtrado"),
    "df_copy")

\* main() with the memo c, the file f and the session's widget state w: the
\* memo, the widget state and the results it leaves.
Selected(d, w) ==
  [estado |-> selectbox(Estados(d), w.estado),
   ano |-> selectbox(Anos(d), w.ano),
   autor |-> selectbox(Autores(d), w.autor)]

\* Lines 167-337 with the selections s.
Render(ld, s, f) ==
  [cache |-> ld.cache, widgets |-> s,
   df |-> MainMemory(ld.value, s).val["df"],
   df_filtrado |-> MainMemory(ld.value, s).val["df_filtrado"],
   page |-> Dashboard(ld, ld.value, f)]

Filtered(ld, s) == Render(ld, s, ApplyFilters(ld.value, s.estado, s.ano, s.autor))

\* main() after df = load_data().
AfterLoad(ld, w) ==
  IF ld.escaped # "none"
  THEN [cache |-> ld.cache, widgets |-> w, df |-> None, df_filtrado |-> None,
        page |-> [BlankPage EXCEPT !.exception = ld.escaped, !.read = ld.read]]
  ELSE IF ld.value.isNone
  THEN [cache |-> ld.cache, widgets |-> w, df |-> None, df_filtrado |-> None,
        page |-> GuidancePage(ld)]
  ELSE Filtered(ld, Selected(ld.value, w))

main(c, f, w) == AfterLoad(load_data(c, f), w)

(***************************************************************************)
(* The session.                                                            *)
(***************************************************************************)
\* No content: load_data has not read the file yet.
NotRead == [kind |-> "unread", header |-> <<>>, rows |-> <<>>]

Init ==
  /\ file \in Files
  /\ cache = NoCache
  /\ widgets = [estado |-> S_Todos, ano |-> S_Todos, autor |-> S_Todos]
  /\ df = None
  /\ df_filtrado = None
  /\ page = BlankPage
  /\ loaded_from = NotRead

Commit(m) ==
  /\ cache' = m.cache
  /\ widgets' = m.widgets
  /\ df' = m.df
  /\ df_filtrado' = m.df_filtrado
  /\ page' = m.page
  /\ loaded_from' = IF m.page.read THEN file ELSE loaded_from
  /\ UNCHANGED file

Script(w) == Commit(main(cache, file, w))

\* The first run of the script, or a re-run that changes no widget.
Run == Script(widgets)

\* The user picks another entry of a selector; the script re-runs.
SelectEstado(v) ==
  /\ v \in Range(page.estados)
  /\ v # widgets.estado
  /\ Script([widgets EXCEPT !.estado = v])

SelectAno(v) ==
  /\ v \in Range(page.anos)
  /\ v # widgets.ano
  /\ Script([widgets EXCEPT !.ano = v])

SelectAutor(v) ==
  /\ v \in Range(page.autores)
  /\ v # widgets.autor
  /\ Script([widgets EXCEPT !.autor = v])

Next ==
  \/ Run
  \/ \E v \in Range(page.estados) : SelectEstado(v)
  \/ \E v \in Range(page.anos) : SelectAno(v)
  \/ \E v \in Range(page.autores) : SelectAutor(v)

Spec == Init /\ [][Next]_vars

(***************************************************************************)
(* The session with a file that is rewritten between runs.  The memo of    *)
(* @st.cache_data outlives the runs; the file on disk belongs to the user, *)
(* who may replace, correct, remove or damage it at any time.              *)
(***************************************************************************)
FullHeader == SelectSeq(HeaderSpellings, LAMBDA c : c # " Status ")

\* The contents the file takes: no file, an unreadable one, one without its
\* Status column, and the complete header over the first two records of the
\* catalogue.
Versions ==
  {MissingFile, CorruptFile,
   CsvFile(SelectSeq(FullHeader, LAMBDA c : c # "Status"), <<>>)} \cup
  { CsvFile(FullHeader, r) :
      r \in UNION { [1..n -> {row \in Catalogue : row["Number"] \in {T("1"), T("2")}}] :
                    n \in 0..MaxRows } }

InitDisk ==
  /\ file \in Versions
  /\ cache = NoCache
  /\ widgets = [estado |-> S_Todos, ano |-> S_Todos, autor |-> S_Todos]
  /\ df = None
  /\ df_filtrado = None
  /\ page = BlankPage
  /\ loaded_from = NotRead

\* The user writes another content to datos_jeps.csv; nothing runs.
WriteFile(f) ==
  /\ f # file
  /\ file' = f
  /\ UNCHANGED <<cache, widgets, df, df_filtrado, page, loaded_from>>

NextDisk ==
  \/ Next
  \/ \E f \in Versions : WriteFile(f)

SpecDisk == InitDisk /\ [][NextDisk]_vars

(***************************************************************************)
(* Properties.                                                             *)
(***************************************************************************)
\* The frame read from the file on disk, before lines 54-64 (the file does
\* not change under Spec).
Parsed == RenameColumns(ReadCsv(file))

Cleaned == {"Status", "Owner", "Release"}

Fallback(c) == IF c = "Release" THEN S_TBD ELSE S_Unknown

Loaded == "load" \in page.steps /\ ~df.isNone

Rows(d) == 1..Len(d.rows)

\* C1: a file whose header lacks Status, Owner or Release is loaded into a
\* table (not a failure) whose records hold the fallback in each absent
\* column: "Unknown" for Status and Owner, "TBD" for Release.  Stated for the
\* files that have both timestamp columns; without them the load fails the
\* same way, at line 54 or 55.
C1_AbsentColumnsGetFallback ==
  ("load" \in page.steps /\ file.kind = "csv"
     /\ {"Created", "Updated"} \subseteq Range(Parsed.columns)
     /\ \E c \in Cleaned : c \notin Range(Parsed.columns))
  => /\ ~df.isNone
     /\ \A c \in Cleaned \ Range(Parsed.columns) :
          \A i \in Rows(df) : df.rows[i][c] = Fallback(c)

\* C2: in a loaded table every Status, Owner or Release that is "REVISAR" in
\* the file holds the column's fallback, no record holds "REVISAR" in these
\* columns, and every other non-null value is the file's.
C2_RevisarReplaced ==
  Loaded =>
    /\ Len(df.rows) = Len(Parsed.rows)
    /\ \A i \in Rows(df) : \A c \in Cleaned :
         /\ df.rows[i][c] # S_REVISAR
         /\ Parsed.rows[i][c] = S_REVISAR => df.rows[i][c] = Fallback(c)
         /\ (Parsed.rows[i][c] # NaN /\ Parsed.rows[i][c] # S_REVISAR)
            => df.rows[i][c] = Parsed.rows[i][c]

\* A loaded table with a "REVISAR" cell replaced in each of the three
\* columns beside a record whose values are kept.
C2_Witness ==
  /\ Loaded
  /\ \E i \in Rows(df) : \A c \in Cleaned :
       Parsed.rows[i][c] = S_REVISAR /\ df.rows[i][c] = Fallback(c)
  /\ \E i \in Rows(df) :
       /\ Parsed.rows[i]["Owner"] = S_Ana /\ df.rows[i]["Owner"] = S_Ana
       /\ Parsed.rows[i]["Release"] = S_8u40 /\ df.rows[i]["Release"] = S_8u40

\* C3: in a loaded table every Status, Owner or Release that is null in the
\* file holds the column's fallback, so no record has a null in these columns.
C3_NullReplaced ==
  Loaded =>
    \A i \in Rows(df) : \A c \in Cleaned :
      /\ df.rows[i][c] # NaN
      /\ Parsed.rows[i][c] = NaN => df.rows[i][c] = Fallback(c)

\* The calendar, day by day: the reference the day difference is compared to.
MonthLengths(y) ==
  <<31, IF (y % 4 = 0 /\ y % 100 # 0) \/ y % 400 = 0 THEN 29 ELSE 28,
    31, 30, 31, 30, 31, 31, 30, 31, 30, 31>>

Tomorrow(ts) ==
  IF ts[3] < MonthLengths(ts[1])[ts[2]] THEN <<ts[1], ts[2], ts[3] + 1>>
  ELSE IF ts[2] < Len(MonthLengths(ts[1])) THEN <<ts[1], ts[2] + 1, 1>>
  ELSE <<ts[1] + 1, 1, 1>>

Precedes(a, b) ==
  \/ a[1] < b[1]
  \/ a[1] = b[1] /\ a[2] < b[2]
  \/ a[1] = b[1] /\ a[2] = b[2] /\ a[3] < b[3]

RECURSIVE DaysUntil(_, _)
DaysUntil(a, b) == IF a = b THEN 0 ELSE 1 + DaysUntil(Tomorrow(a), b)

WholeDays(created, updated) ==
  IF Precedes(updated, created) THEN 0 - DaysUntil(updated, created)
  ELSE DaysUntil(created, updated)

\* C4: in a loaded table Duration_Days is null when Created or Updated is
\* null (an empty cell or a text that is no date), and is otherwise the
\* whole-day difference Updated - Created, negative when Updated precedes
\* Created; every record of the file is in the table.
C4_DurationDays ==
  Loaded =>
    /\ Len(df.rows) = Len(file.rows)
    /\ \A i \in Rows(df) :
         LET r == df.rows[i]
         IN  /\ file.rows[i]["Created"] \in {<<>>, D_2023_02_31} => r["Created"] = NaT
             /\ file.rows[i]["Updated"] = <<>> => r["Updated"] = NaT
             /\ (r["Created"] = NaT \/ r["Updated"] = NaT) => r["Duration_Days"] = NaN
             /\ (r["Created"] # NaT /\ r["Updated"] # NaT)
                => /\ r["Duration_Days"] = <<WholeDays(r["Created"], r["Updated"])>>
                   /\ Precedes(r["Updated"], r["Created"]) => r["Duration_Days"][1] < 0

\* A loaded table with a negative duration beside a record that has no
\* Updated and no duration.
C4_Witness ==
  /\ Loaded
  /\ \E i \in Rows(df) :
       /\ df.rows[i]["Created"] = <<2023, 1, 11>>
       /\ df.rows[i]["Updated"] = <<2023, 1, 1>>
       /\ df.rows[i]["Duration_Days"] = <<0 - 10>>
  /\ \E i \in Rows(df) :
       df.rows[i]["Updated"] = NaT /\ df.rows[i]["Duration_Days"] = NaN

AllTodos == widgets.estado = S_Todos /\ widgets.ano = S_Todos /\ widgets.autor = S_Todos

\* C5: the filtered view holds exactly the records of the loaded table that
\* have the selected value in every dimension whose selection is not
\* "Todos", in the table's order; with "Todos" everywhere it is the table.
C5_FilterExact ==
  ("filter" \in page.steps) =>
    LET sel(i) ==
          /\ widgets.estado # S_Todos => df.rows[i]["Status"] = widgets.estado
          /\ widgets.ano # S_Todos => df.rows[i]["Year_Created"] = widgets.ano
          /\ widgets.autor # S_Todos => df.rows[i]["Owner"] = widgets.autor
        pos == SelectSeq([i \in 1..Len(df.rows) |-> i], sel)
    IN  /\ df_filtrado.index = [k \in 1..Len(pos) |-> df.index[pos[k]]]
        /\ df_filtrado.rows = [k \in 1..Len(pos) |-> df.rows[pos[k]]]
        /\ AllTodos => df_filtrado.rows = df.rows

OwnerView(k) == ApplyFilters(df, S_Todos, S_Todos, Autores(df)[k])

\* C6: the view of one offered owner holds only that owner's records, and
\* every record of the loaded table is in the view of exactly one of the
\* offered owners.
C6_OwnerViewsPartition ==
  Loaded =>
    /\ \A k \in 2..Len(Autores(df)) :
         \A j \in Rows(OwnerView(k)) : OwnerView(k).rows[j]["Owner"] = Autores(df)[k]
    /\ \A i \in Rows(df) :
         Cardinality({k \in 2..Len(Autores(df)) :
                        df.index[i] \in Range(OwnerView(k).index)}) = 1

\* Text made of decimal digits only, position by position.
OnlyDigits(t) == t # <<>> /\ Range(t) \subseteq {"0", "1", "2", "3", "4", "5", "6", "7", "8", "9"}

ReleaseText(i) ==
  AsTypeStr(df_filtrado.dtypes["Release"], df_filtrado.rows[i]["Release"])

ExampleReleases ==
  DataFrame(<<"Release">>, [c \in {"Release"} |-> "object"], <<0, 1, 2, 3, 4>>,
            << [c \in {"Release"} |-> S_17], [c \in {"Release"} |-> S_21],
               [c \in {"Release"} |-> S_TBD], [c \in {"Release"} |-> S_REVISAR],
               [c \in {"Release"} |-> S_8u40] >>)

\* C7: the release distribution of the view counts exactly the records whose
\* Release, as text, is one or more decimal digits: one count per such value,
\* the number of records that hold it, and nothing for any other value; it
\* is None when no record qualifies.  For the Release values 17, 21, TBD,
\* REVISAR, 8u40 it counts 17 and 21 only.
C7_ReleaseDistribution ==
  /\ create_release_chart(ExampleReleases).data = [t \in {S_17, S_21} |-> 1]
  /\ ("charts" \in page.steps) =>
       LET fig == page.tab4.chart
           qualifying == {i \in Rows(df_filtrado) : OnlyDigits(ReleaseText(i))}
       IN  /\ (qualifying = {}) <=> (fig.kind = "None")
           /\ qualifying # {} =>
                /\ DOMAIN fig.data = {ReleaseText(i) : i \in qualifying}
                /\ \A t \in DOMAIN fig.data :
                     fig.data[t] = Cardinality({i \in qualifying : ReleaseText(i) = t})

\* A view with a record of release 17, counted, and a record of release
\* 8u40, not counted.
C7_Witness ==
  /\ "charts" \in page.steps
  /\ \E i \in Rows(df_filtrado) : df_filtrado.rows[i]["Release"] = S_17
  /\ \E i \in Rows(df_filtrado) : df_filtrado.rows[i]["Release"] = S_8u40
  /\ page.tab4.chart.kind = "bar"
  /\ page.tab4.chart.data = [t \in {S_17} |-> 1]

Placeholder(panel) == panel.chart.kind = "None" /\ panel.info # ""

NoneHas(c) == \A i \in Rows(df_filtrado) : df_filtrado.rows[i][c] = NaN

\* C8: an aggregation for which no record of the view qualifies yields no
\* chart, and the page shows the placeholder in its place: the status and
\* owner distributions and the yearly counts when no record has the value,
\* the release distribution when no Release is digits, the duration
\* histogram when no duration is positive.
C8_NoChartWithoutRecords ==
  ("charts" \in page.steps) =>
    /\ NoneHas("Status") => Placeholder(page.tab1)
    /\ NoneHas("Owner") => Placeholder(page.tab2)
    /\ NoneHas("Year_Created") => Placeholder(page.tab3)
    /\ (\A i \in Rows(df_filtrado) : ~OnlyDigits(ReleaseText(i))) => Placeholder(page.tab4)
    /\ (\A i \in Rows(df_filtrado) :
          \/ df_filtrado.rows[i]["Duration_Days"] = NaN
          \/ df_filtrado.rows[i]["Duration_Days"][1] <= 0)
       => Placeholder(page.duration)

\* C9: the duration histogram is built from exactly the records of the view
\* whose Duration_Days is greater than zero (not null, zero or negative), in
\* order, and is None when there is none.  For the records 2023-01-01 to
\* 2023-01-11 and 2023-02-01 to null it holds the first, 10 days, only.
C9_DurationHistogram ==
  ("charts" \in page.steps) =>
    LET fig == page.duration.chart
        days(i) == df_filtrado.rows[i]["Duration_Days"]
        pos == SelectSeq([i \in 1..Len(df_filtrado.rows) |-> i],
                         LAMBDA i : days(i) # NaN /\ days(i)[1] >= 1)
    IN  /\ (pos = <<>>) <=> (fig.kind = "None")
        /\ pos # <<>> =>
             /\ fig.kind = "histogram"
             /\ fig.data.values = [k \in 1..Len(pos) |-> days(pos[k])]
        /\ ( /\ Len(df_filtrado.rows) = 2
             /\ df_filtrado.rows[1]["Created"] = <<2023, 1, 1>>
             /\ df_filtrado.rows[1]["Updated"] = <<2023, 1, 11>>
             /\ df_filtrado.rows[2]["Created"] = <<2023, 2, 1>>
             /\ df_filtrado.rows[2]["Updated"] = NaT )
           => fig.data.values = <<(<<10>>)>>

\* The view of the example: the histogram holds the 10 days of the first
\* record and not the second record.
C9_Witness ==
  /\ "charts" \in page.steps
  /\ Len(df_filtrado.rows) = 2
  /\ df_filtrado.rows[1]["Created"] = <<2023, 1, 1>>
  /\ df_filtrado.rows[1]["Updated"] = <<2023, 1, 11>>
  /\ df_filtrado.rows[2]["Created"] = <<2023, 2, 1>>
  /\ df_filtrado.rows[2]["Updated"] = NaT
  /\ page.duration.chart.kind = "histogram"
  /\ page.duration.chart.data.values = <<(<<10>>)>>

\* The files on which the try block of load_data raises.
LoadFails ==
  \/ file.kind # "csv"
  \/ \E c \in {"Created", "Updated", "Status", "Owner", "Release"} :
       c \notin Range(Parsed.columns)

\* C10: when the load fails (the file is missing, or anything else raises)
\* load_data reports an error, returns None and lets no exception out; main
\* then shows the guidance and runs no selector, filter, metric, chart,
\* table or export step.
C10_LoadFailureStopsMain ==
  ("load" \in page.steps \/ page.exception # "none") =>
    /\ page.exception = "none"
    /\ LoadFails =>
         /\ df.isNone
         /\ Len(page.messages) >= 1
         /\ page.messages[1].level = "error"
         /\ file.kind # "missing" => page.messages[1].detail # ""
    /\ df.isNone =>
         /\ LoadFails
         /\ page.guidance
         /\ page.messages[Len(page.messages)].level = "info"
         /\ page.steps = {"load"}
         /\ df_filtrado.isNone
         /\ page.estados = <<>> /\ page.anos = <<>> /\ page.autores = <<>>
         /\ \A panel \in {page.tab1, page.tab2, page.tab3, page.tab4, page.duration} :
              panel.chart.kind = "None" /\ panel.info = ""
         /\ page.columns_to_show = <<>>
         /\ page.csv = <<>>

\* A run on an unreadable file: the error and the guidance, nothing else.
C10_Witness ==
  /\ file.kind = "corrupt"
  /\ "load" \in page.steps
  /\ df.isNone
  /\ page.guidance
  /\ page.messages[1].level = "error"
  /\ page.steps = {"load"}

\* A step of a run of the script: every other step rewrites the file.
ScriptStep == file' = file

\* C11: over the re-runs of one session, load_data reads the file at most
\* once while its content is unchanged and returns the same table on every
\* such re-run; once the content has changed, the next run reads the file
\* again and returns the table built from the new content.  Stated for a
\* memo that is empty or holds a table (a memo holding a failed load is
\* C12's case).
C11_LoadOncePerContent ==
  [][ScriptStep =>
       IF cache.valid /\ loaded_from = file
       THEN ~page'.read /\ df' = cache.value /\ cache' = cache
       ELSE (cache.valid => ~cache.value.isNone) =>
              /\ page'.read
              /\ loaded_from' = file
              /\ df' = load_data_uncached(file).value]_vars

\* The file as it is now would load into a table.
Loadable == ~load_data_uncached(file).value.isNone

\* C12: a load failure is terminal only for its own attempt: after a run in
\* which load_data failed and returned no table, a run made once the file
\* has been corrected reads the file anew and produces its table; the failed
\* result is not served in place of the corrected content.
C12_FailureNotServedAgain ==
  [][ScriptStep /\ page.guidance /\ df.isNone /\ Loadable =>
       /\ page'.read
       /\ ~page'.guidance
       /\ df' = load_data_uncached(file).value]_vars

\* The text of a header field as a column name.
RECURSIVE NameOf(_)
NameOf(field) == IF field = <<>> THEN "" ELSE Head(field) \o NameOf(Tail(field))

\* A field as the csv reader takes it: the quotes of a quoted field go and
\* its doubled quotes are halved.
RECURSIVE HalveQuotes(_)
HalveQuotes(s) ==
  IF Len(s) >= 2 /\ s[1] = "\"" /\ s[2] = "\"" THEN <<"\"">> \o HalveQuotes(SubSeq(s, 3, Len(s)))
  ELSE IF s = <<>> THEN <<>>
  ELSE <<Head(s)>> \o HalveQuotes(Tail(s))

Unquote(field) ==
  IF Len(field) >= 2 /\ field[1] = "\"" /\ field[Len(field)] = "\""
  THEN HalveQuotes(SubSeq(field, 2, Len(field) - 1))
  ELSE field

\* The exported lines as a file read with the separator sep: the fields of
\* the first line name the columns, a short line is completed with empty
\* cells and a line with more fields than the header cannot be tokenized.
ReadText(lines, sep) ==
  LET header == [k \in 1..Len(Split(lines[1], {sep})) |-> NameOf(Split(lines[1], {sep})[k])]
      fields(i) == Split(lines[i + 1], {sep})
  IN  IF \E i \in 1..(Len(lines) - 1) : Len(fields(i)) > Len(header)
      THEN CorruptFile
      ELSE [kind |-> "csv", header |-> header,
            rows |-> [i \in 1..(Len(lines) - 1) |->
                        [c \in Range(header) |->
                           LET k == CHOOSE j \in 1..Len(header) : header[j] = c
                           IN  IF k <= Len(fields(i)) THEN Unquote(fields(i)[k]) ELSE <<>>]]]

\* The exported text of the last run, parsed with the delimiter of line 47.
Reimported == RenameColumns(ReadCsv(ReadText(page.csv, "\t")))

\* The source columns of record i of d, a date text taken as its timestamp.
SourceValues(d, i) ==
  [c \in Range(FullHeader) |->
     IF c \in {"Created", "Updated"} /\ d.dtypes[c] # "datetime64"
     THEN ToDatetime(d.dtypes[c], d.rows[i][c])
     ELSE d.rows[i][c]]

\* C13: for every loaded table and every selection, the export of the
\* filtered view, parsed again with the loader's delimiter, has the source
\* columns Number, Title, Owner, Status, Release, Created, Updated and the
\* same set of records over them as the filtered view, a timestamp and its
\* text counting as the same value.  Stated for the views that hold a
\* record.
C13_ExportRoundTrip ==
  Loaded /\ df_filtrado.rows # <<>> =>
    /\ Range(FullHeader) \subseteq Range(Reimported.columns)
    /\ {SourceValues(Reimported, i) : i \in Rows(Reimported)}
         = {SourceValues(df_filtrado, i) : i \in Rows(df_filtrado)}

\* C14: the loaded table is never changed after load: in every run, for
\* every selection, the filter step and the aggregations (the coercion of
\* Release to text included) work on copies, so the table main holds after
\* the run is the table load_data returned, the memo keeps it, and the next
\* run filters the same table.
C14_LoadedTableUnchanged ==
  [][ScriptStep =>
       /\ Loaded' => df' = cache'.value
       /\ Loaded => /\ cache' = cache
                    /\ df' = df
                    /\ df_filtrado' = ApplyFilters(df, widgets'.estado, widgets'.ano, widgets'.autor)]_vars

\* A re-run with nothing selected, on a table whose Release column holds
\* numbers, which the release chart coerced to text and plotted.
C14_Witness ==
  /\ Loaded
  /\ ~page.read
  /\ AllTodos
  /\ df.dtypes["Release"] = "int64"
  /\ page.tab4.chart.kind # "None"
  /\ page.metrics.releases_unicos > 0

====
